---------------------------- MODULE Spec2Model ----------------------------
(***************************************************************************)
(* OWID Grapher map scanner (owid_map_scanner_mcp.py): inventory paging,   *)
(* configuration parsing, year extraction with the per-slug file cache and *)
(* the per-process lru_cache, the indicator-dimension fallback, the        *)
(* classification record and the worker pool that runs it.                 *)
(***************************************************************************)
EXTENDS Integers, Sequences, FiniteSets, TLC

(***************************************************************************)
(* Bounds of the model.                                                    *)
(***************************************************************************)
\* a configuration object of the input domain has at most this many members
MaxMembers == 2
\* rows in the server's charts table, for the paging runs
MaxRows == 5
\* charts of an inventory handed to the pool, for the pool runs
MaxPoolCharts == 2

\* the longest list of records handed to save_results on its own
MaxRecords == 3

(***************************************************************************)
(* Python values, tagged by type, so that None, 0, "" and False stay       *)
(* distinct and truthiness is computed as Python computes it.              *)
(***************************************************************************)
NoneV == [t |-> "none"]
BoolV(b) == [t |-> "bool", b |-> b]
IntV(n) == [t |-> "int", n |-> n]
StrV(s) == [t |-> "str", s |-> s]
DictV(d) == [t |-> "dict", d |-> d]
ListV(l) == [t |-> "list", l |-> l]

EmptyDict == [k \in {} |-> NoneV]

\* bool(v)
Truthy(v) ==
    CASE v.t = "none" -> FALSE
      [] v.t = "bool" -> v.b
      [] v.t = "int"  -> v.n # 0
      [] v.t = "str"  -> v.s # ""
      [] v.t = "dict" -> DOMAIN v.d # {}
      [] v.t = "list" -> Len(v.l) > 0

\* d.get(k)
Get(d, k) == IF k \in DOMAIN d THEN d[k] ELSE NoneV

\* d.get(k, default)
GetDefault(d, k, default) == IF k \in DOMAIN d THEN d[k] ELSE default

\* a or b
PyOr(a, b) == IF Truthy(a) THEN a ELSE b

(***************************************************************************)
(* Configuration texts.  A text is a sequence of tokens in which every     *)
(* quote character is a token of its own, so that the replacement of       *)
(* doubled quotes acts on the text as str.replace does.                    *)
(***************************************************************************)
Q == "\""

\* the order in which the members of an object are written
KeyOrder == << "hasMapTab", "tab", "map", "hideTimeline", "time",
               "timelineMaxTime", "MaxTime", "timelineMinTime", "MinTime",
               "entityType", "dimensions", "property", "variableId" >>

RECURSIVE DumpVal(_), DumpMembers(_, _), DumpItems(_, _)

DumpMembers(d, i) ==
    IF i > Len(KeyOrder) THEN << >>
    ELSE (IF KeyOrder[i] \in DOMAIN d
            THEN << ",", Q, KeyOrder[i], Q, ":" >> \o DumpVal(d[KeyOrder[i]])
            ELSE << >>) \o DumpMembers(d, i + 1)

DumpItems(l, i) ==
    IF i > Len(l) THEN << >>
    ELSE << "," >> \o DumpVal(l[i]) \o DumpItems(l, i + 1)

DumpVal(v) ==
    CASE v.t = "none" -> << "null" >>
      [] v.t = "bool" -> IF v.b THEN << "true" >> ELSE << "false" >>
      [] v.t = "int"  -> << ToString(v.n) >>
      [] v.t = "str"  -> IF v.s = "" THEN << Q, Q >> ELSE << Q, v.s, Q >>
      [] v.t = "dict" -> LET m == DumpMembers(v.d, 1)
                         IN  << "{" >> \o (IF m = << >> THEN m ELSE Tail(m)) \o << "}" >>
      [] v.t = "list" -> LET m == DumpItems(v.l, 1)
                         IN  << "[" >> \o (IF m = << >> THEN m ELSE Tail(m)) \o << "]" >>

\* the JSON text of a configuration object
Dump(d) == DumpVal(DictV(d))

RECURSIVE DoubleQuotes(_)
\* the storage encoding that writes every quote character twice
DoubleQuotes(toks) ==
    IF toks = << >> THEN << >>
    ELSE (IF Head(toks) = Q THEN << Q, Q >> ELSE << Head(toks) >>)
         \o DoubleQuotes(Tail(toks))

RECURSIVE ReplaceDoubled(_)
\* config_str.replace('""', '"'): left to right, non-overlapping
ReplaceDoubled(toks) ==
    IF Len(toks) < 2 THEN toks
    ELSE IF toks[1] = Q /\ toks[2] = Q
         THEN << Q >> \o ReplaceDoubled(SubSeq(toks, 3, Len(toks)))
         ELSE << toks[1] >> \o ReplaceDoubled(Tail(toks))

(***************************************************************************)
(* The input domain of configurations: every object with at most           *)
(* MaxMembers of these members, no key twice.                              *)
(***************************************************************************)
DimY == [k \in {"property", "variableId"} |->
            IF k = "property" THEN StrV("y") ELSE IntV(923410)]
DimX == [k \in {"property", "variableId"} |->
            IF k = "property" THEN StrV("x") ELSE IntV(923410)]
DimNoId == [k \in {"property"} |-> StrV("y")]

Members ==
    { << "hasMapTab", BoolV(TRUE) >>, << "hasMapTab", BoolV(FALSE) >>,
      << "tab", StrV("map") >>, << "tab", StrV("chart") >>,
      << "map", DictV([k \in {"hideTimeline"} |-> BoolV(TRUE)]) >>,
      << "map", DictV([k \in {"time"} |-> IntV(2005)]) >>,
      << "map", DictV(EmptyDict) >>,
      << "timelineMaxTime", IntV(0) >>, << "timelineMaxTime", IntV(2000) >>,
      << "timelineMinTime", IntV(0) >>, << "timelineMinTime", IntV(2000) >>,
      << "MaxTime", IntV(2010) >>, << "MinTime", IntV(2010) >>,
      << "entityType", StrV("") >>,
      << "dimensions", ListV(<< DictV(DimY) >>) >>,
      << "dimensions", ListV(<< DictV(DimX) >>) >>,
      << "dimensions", ListV(<< DictV(DimNoId) >>) >> }

MemberSets ==
    { S \in SUBSET Members :
        /\ Cardinality(S) <= MaxMembers
        /\ \A m1, m2 \in S : m1[1] = m2[1] => m1 = m2 }

DictOf(S) == [k \in { m[1] : m \in S } |-> (CHOOSE m \in S : m[1] = k)[2]]

ConfigDicts == { DictOf(S) : S \in MemberSets }

\* the text of every object of the domain, with the object
DumpPairs == { << Dump(d), d >> : d \in ConfigDicts }

\* texts that are JSON neither as they are nor after the replacement
GarbageTexts == { << "{" >>, << "{", Q, "tab", Q, ":" >>, << >> }

\* what the config column of a row can hold
ConfigTexts ==
    { p[1] : p \in DumpPairs }
    \cup { DoubleQuotes(p[1]) : p \in DumpPairs }
    \cup GarbageTexts

(***************************************************************************)
(* json.loads on the texts above: a text is JSON exactly when it is the    *)
(* text of an object, and then it loads to that object; otherwise          *)
(* json.JSONDecodeError.                                                   *)
(***************************************************************************)
JsonLoads(text) ==
    IF \E p \in DumpPairs : p[1] = text
    THEN [raised |-> FALSE, val |-> (CHOOSE p \in DumpPairs : p[1] = text)[2]]
    ELSE [raised |-> TRUE, val |-> EmptyDict]

\* parse_chart_config: the replaced text first; on any exception the text
\* unmodified, whose exception is not caught
parse_chart_config(config_str) ==
    LET first == JsonLoads(ReplaceDoubled(config_str))
    IN  IF ~first.raised THEN first ELSE JsonLoads(config_str)


(***************************************************************************)
(* parse_config_for_map_info                                               *)
(***************************************************************************)
\* the default tab recorded, the flag taken from hasMapTab alone
parse_config_for_map_info_FlagOnly(config) ==
    LET timelineMaxTime == PyOr(Get(config, "timelineMaxTime"), Get(config, "MaxTime"))
        timelineMinTime == PyOr(Get(config, "timelineMinTime"), Get(config, "MinTime"))
        tabIsMap == Get(config, "tab") = StrV("map")
        hasMap == "map" \in DOMAIN config
        map_config == IF hasMap THEN config["map"].d ELSE EmptyDict
    IN  [ has_map_tab     |-> Truthy(Get(config, "hasMapTab")),
          default_tab     |-> IF tabIsMap THEN StrV("map") ELSE NoneV,
          map_column_slug |-> IF hasMap THEN Get(map_config, "columnSlug") ELSE NoneV,
          map_time        |-> IF hasMap THEN Get(map_config, "time") ELSE NoneV,
          has_timeline    |-> ~(hasMap /\ Truthy(Get(map_config, "hideTimeline"))),
          entity_type     |-> Get(config, "entityType"),
          max_time        |-> timelineMaxTime,
          min_time        |-> timelineMinTime ]

parse_config_for_map_info(config) ==
    LET timelineMaxTime == PyOr(Get(config, "timelineMaxTime"), Get(config, "MaxTime"))
        timelineMinTime == PyOr(Get(config, "timelineMinTime"), Get(config, "MinTime"))
        tabIsMap == Get(config, "tab") = StrV("map")
        hasMap == "map" \in DOMAIN config
        map_config == IF hasMap THEN config["map"].d ELSE EmptyDict
    IN  [ has_map_tab     |-> Truthy(Get(config, "hasMapTab")) \/ tabIsMap,
          default_tab     |-> IF tabIsMap THEN StrV("map") ELSE NoneV,
          map_column_slug |-> IF hasMap THEN Get(map_config, "columnSlug") ELSE NoneV,
          map_time        |-> IF hasMap THEN Get(map_config, "time") ELSE NoneV,
          has_timeline    |-> ~(hasMap /\ Truthy(Get(map_config, "hideTimeline"))),
          entity_type     |-> Get(config, "entityType"),
          max_time        |-> timelineMaxTime,
          min_time        |-> timelineMinTime ]


(***************************************************************************)
(* Strings of the exports and of the metadata: str.split("-")[0],          *)
(* str.strip().lower() and int(float(s)) on the strings that occur.        *)
(***************************************************************************)
\* s.split("-")[0]
SplitDash(s) ==
    CASE s = "2020-01-01" -> "2020"
      [] s = "2021-06-30" -> "2021"
      [] s = "-500"       -> ""
      [] OTHER            -> s

\* s.strip().lower()
StripLower(s) ==
    CASE s \in {"Year", " Year", "year"} -> "year"
      [] s = "Entity" -> "entity"
      [] s = "Code"   -> "code"
      [] s = "Day"    -> "day"
      [] OTHER        -> s

\* s.strip()
Strip(s) ==
    CASE s = " Year"  -> "Year"
      [] s = " 1990 " -> "1990"
      [] OTHER        -> s

\* int(float(s)); ValueError on a string that is no number
IntOfFloat(s) ==
    CASE s = "1990"   -> [raised |-> FALSE, val |-> 1990]
      [] s = "2000"   -> [raised |-> FALSE, val |-> 2000]
      [] s = "2000.0" -> [raised |-> FALSE, val |-> 2000]
      [] s = "2020"   -> [raised |-> FALSE, val |-> 2020]
      [] s = "2021"   -> [raised |-> FALSE, val |-> 2021]
      [] OTHER        -> [raised |-> TRUE, val |-> 0]

\* split_date: an int as it is, a string cut at its first "-"; anything else
\* has no split (AttributeError)
split_date(y) ==
    CASE y.t \in {"int", "bool"} -> [raised |-> FALSE, val |-> y]
      [] y.t = "str"             -> [raised |-> FALSE, val |-> StrV(SplitDash(y.s))]
      [] OTHER                   -> [raised |-> TRUE, val |-> NoneV]

(***************************************************************************)
(* Exports.  A text is the sequence of its lines, a line the sequence of   *)
(* its comma-separated cells; the empty text has no line.                  *)
(***************************************************************************)
EmptyText == << >>

ExportTwoYears ==
    << << "Entity", "Code", "Year" >>,
       << "Afghanistan", "AFG", "1990" >>,
       << "Afghanistan", "AFG", "2000.0" >>,
       << "Albania", "ALB", " 1990 " >> >>

ExportOneYear ==
    << << "Entity", "Code", " Year", "Value" >>,
       << "Afghanistan", "AFG", "2000", "1990" >>,
       << "Albania", "ALB", "2000", "2020" >> >>

\* no year column: the positional column is used, and holds dates
ExportDays ==
    << << "Entity", "Code", "Day" >>,
       << "Afghanistan", "AFG", "2020-01-01" >>,
       << "Afghanistan", "AFG", "2021-06-30" >>,
       << "Albania" >> >>

\* a header and rows, none of which holds a year
ExportNoYears ==
    << << "Entity", "year" >>,
       << "Afghanistan", "-500" >>,
       << "Albania", "n/a" >> >>

Exports == { ExportTwoYears, ExportOneYear, ExportDays, ExportNoYears }

\* the index (from 0) of the first header cell naming the time, else 2
year_col_idx(headers) ==
    LET hits == { i \in 1..Len(headers) : StripLower(headers[i]) \in {"year", "time", "date"} }
    IN  IF hits = {} THEN 2
        ELSE (CHOOSE i \in hits : \A j \in hits : i <= j) - 1

\* the body of fetch_chart_data_years after the text is there
YearsOfText(lines) ==
    IF Len(lines) < 2 THEN {}
    ELSE LET idx == year_col_idx(lines[1])
             good == { k \in 2..Len(lines) :
                         /\ Len(lines[k]) > idx
                         /\ ~IntOfFloat(split_date(StrV(Strip(lines[k][idx + 1]))).val.s).raised }
         IN  { IntV(IntOfFloat(split_date(StrV(Strip(lines[k][idx + 1]))).val.s).val) : k \in good }


(***************************************************************************)
(* try_with_dimensions                                                     *)
(***************************************************************************)
D1(k, v) == [x \in {k} |-> v]

\* the y indicator of the dimension list, None when there is none: the part
\* of try_with_dimensions before the request
variableId_of(dimensions) ==
    IF ~Truthy(dimensions) THEN NoneV
    ELSE LET dims == dimensions.l
             hits == { i \in 1..Len(dims) :
                         /\ "variableId" \in DOMAIN dims[i].d
                         /\ Get(dims[i].d, "property") = StrV("y") }
         IN  IF hits = {} THEN NoneV
             ELSE dims[CHOOSE i \in hits : \A j \in hits : j <= i].d["variableId"]

\* v.get(k, default) on a value that may be no dict (AttributeError)
GetOn(v, k, default) ==
    IF v.raised \/ v.val.t # "dict" THEN [raised |-> TRUE, val |-> NoneV]
    ELSE [raised |-> FALSE, val |-> GetDefault(v.val.d, k, default)]

\* the part of try_with_dimensions after the response was read as JSON
years_of_metadata(data) ==
    LET years_info == GetOn(GetOn(GetOn([raised |-> FALSE, val |-> data],
                                        "dimensions", DictV(EmptyDict)),
                                  "years", DictV(EmptyDict)),
                            "values", ListV(<< >>))
    IN  IF years_info.raised THEN [raised |-> TRUE, years |-> {}]
        ELSE CASE years_info.val.t = "list" ->
                    LET l == years_info.val.l
                        withId == { i \in 1..Len(l) : l[i].t = "dict" /\ "id" \in DOMAIN l[i].d }
                    IN  IF \/ \E i \in 1..Len(l) : l[i].t \in {"int", "none", "bool"}
                           \/ \E i \in withId : split_date(l[i].d["id"]).raised
                        THEN [raised |-> TRUE, years |-> {}]
                        ELSE [raised |-> FALSE,
                              years |-> { split_date(l[i].d["id"]).val : i \in withId }]
               [] years_info.val.t \in {"int", "none", "bool"} ->
                    [raised |-> TRUE, years |-> {}]

MetaOf(values) == DictV(D1("dimensions", DictV(D1("years", DictV(D1("values", values))))))

\* what response.json() of the metadata endpoint can be
MetaBodies ==
    { MetaOf(ListV(<< DictV(D1("id", IntV(1980))), DictV(D1("id", IntV(1981))),
                      DictV(D1("id", IntV(1980))) >>)),
      MetaOf(ListV(<< DictV(D1("id", IntV(1980))) >>)),
      MetaOf(ListV(<< DictV(D1("id", StrV("2020-01-01"))), DictV(D1("id", StrV("2021-06-30"))) >>)),
      MetaOf(ListV(<< DictV(D1("id", IntV(1980))), DictV(D1("id", StrV("2020-01-01"))) >>)),
      MetaOf(ListV(<< DictV(D1("name", StrV("y"))) >>)),
      DictV(EmptyDict),
      DictV(D1("dimensions", NoneV)),
      ListV(<< >>),
      MetaOf(IntV(5)),
      MetaOf(ListV(<< IntV(1980) >>)),
      MetaOf(ListV(<< DictV(D1("id", NoneV)) >>)) }

(***************************************************************************)
(* generate_chart_result, from the years on                                *)
(***************************************************************************)
\* max(years) and min(years): year strings of four digits compare as their
\* numbers do; an int and a str do not compare (TypeError)
YearKey(y) == IF y.t = "int" THEN y.n ELSE IntOfFloat(y.s).val

PyMax(years) ==
    IF \E y1, y2 \in years : y1.t # y2.t THEN [raised |-> TRUE, val |-> NoneV]
    ELSE [raised |-> FALSE,
          val |-> CHOOSE y \in years : \A z \in years : YearKey(z) <= YearKey(y)]

PyMin(years) ==
    IF \E y1, y2 \in years : y1.t # y2.t THEN [raised |-> TRUE, val |-> NoneV]
    ELSE [raised |-> FALSE,
          val |-> CHOOSE y \in years : \A z \in years : YearKey(y) <= YearKey(z)]

single_year_data(years) ==
    IF Cardinality(years) = 1 THEN "Yes"
    ELSE IF Cardinality(years) > 1 THEN "No" ELSE "Unknown"

\* lines 376-397: the record, or the exception of max or min
chart_result(chart, map_info, years) ==
    LET maxR == IF Truthy(map_info.max_time)
                THEN [raised |-> FALSE, val |-> map_info.max_time]
                ELSE IF years # {} THEN PyMax(years)
                     ELSE [raised |-> FALSE, val |-> NoneV]
        minR == IF Truthy(map_info.min_time)
                THEN [raised |-> FALSE, val |-> map_info.min_time]
                ELSE IF years # {} THEN PyMin(years)
                     ELSE [raised |-> FALSE, val |-> NoneV]
    IN  [ raised |-> maxR.raised \/ minR.raised,
          val |-> [ chart_id         |-> chart.id,
                    slug             |-> chart.slug,
                    url              |-> [ base |-> chart.slug,
                                           query |-> IF map_info.has_map_tab
                                                     THEN "?tab=map" ELSE "" ],
                    has_map_tab      |-> IF map_info.has_map_tab THEN "Yes" ELSE "No",
                    max_time         |-> maxR.val,
                    min_time         |-> minR.val,
                    default_tab      |-> map_info.default_tab,
                    is_published     |-> chart.isPublished,
                    entity_type      |-> map_info.entity_type,
                    single_year_data |-> single_year_data(years),
                    len_years        |-> Cardinality(years),
                    has_timeline     |-> IF map_info.has_timeline THEN "Yes" ELSE "No" ] ]


(***************************************************************************)
(* The run.                                                                *)
(***************************************************************************)
\* page_size (1000 in the source), scaled to the tables of the model
page_size == 2

\* Pool(processes=4), scaled to the inventories of the model
processes == 2

Workers == 1..processes

\* the slugs that name an export; a row without slug has ""
Slugs == {"a", "b"}

VARIABLES
    table,         \* the rows of the server's charts table, ORDER BY id
    export,        \* the server's export of every slug
    csv_file,      \* csv_data/<slug>.csv: whether it exists, and its content
    fm,            \* fetch_map_charts_from_sql: pc, offset, all_charts, and
                   \* the requests made and the pages received so far
    scan,          \* scan_all_charts_with_pool: pc, charts, the next index
                   \* imap hands out, the results taken from imap so far
    task,          \* per chart of the inventory: the state of its
                   \* generate_chart_result call, its record or the place
                   \* that raised, and what the call did (the primary
                   \* years, whether try_with_dimensions was called, whether
                   \* its fetch_csv_data began after another had returned)
    wk,            \* per worker process: where it is in generate_chart_result
    lru,           \* per worker process: the lru_cache of fetch_chart_data_years
    csv_requests,  \* per slug: the GETs of its export made so far
    csv_returned,  \* per slug: whether a fetch_csv_data call has returned
    year_returns,  \* per slug: the sets fetch_chart_data_years has returned
    meta_requests, \* the GETs of the metadata endpoint, by chart index
    main,          \* main of owid_map_scanner_mcp.py: pc, the list handed to
                   \* save_results, and the three files it writes
    gs             \* the run of owid_grapher_map_scanner.py: pc, the charts
                   \* fetch_all_chart_ids returned, the futures, the results

vars == << table, export, csv_file, fm, scan, task, wk, lru,
           csv_requests, csv_returned, year_returns, meta_requests, main, gs >>

Min(a, b) == IF a < b THEN a ELSE b

NoFile == [exists |-> FALSE, content |-> EmptyText]

IdleWorker == [pc |-> "idle", idx |-> 0, config |-> EmptyDict,
               text |-> EmptyText, failed |-> FALSE, late |-> FALSE]

NoResult == chart_result([id |-> 0, slug |-> "", isPublished |-> StrV("")],
                         parse_config_for_map_info(EmptyDict), {}).val

Queued == [state |-> "queued", error |-> "", result |-> NoResult, primary |-> {},
           fallback |-> FALSE, years |-> {}, late |-> FALSE, rank |-> 0]

\* a file main has not opened: whether it is there, whether this run has
\* opened it for writing, its header line and its rows
NoOutput == [exists |-> FALSE, opened |-> FALSE, header |-> << >>, rows |-> << >>]

\* main before scan_all_charts_with_pool has returned
MainStart == [pc |-> "scan", results |-> << >>, json |-> NoOutput,
              complete |-> NoOutput, published |-> NoOutput]

\* owid_grapher_map_scanner.py is not the program that runs
GrapherOff == [pc |-> "off", failed |-> FALSE, charts |-> << >>, next |-> 1,
               futures |-> << >>, completed |-> << >>, results |-> << >>,
               file |-> NoOutput]

\* the state after construction, for a given server and cache directory, of
\* the program that runs: "mcp" is owid_map_scanner_mcp.py, "grapher" is
\* owid_grapher_map_scanner.py
InitProgram(tbl, exp, files, program) ==
    /\ table = tbl
    /\ export = exp
    /\ csv_file = files
    /\ fm = [pc |-> IF program = "mcp" THEN "loop" ELSE "off", offset |-> 0, all_charts |-> << >>,
             requests |-> << >>, pages |-> << >>, failed |-> FALSE,
             all_charts_json |-> {}]
    /\ scan = [pc |-> "fetch", charts |-> << >>, next |-> 1, results |-> << >>]
    /\ task = << >>
    /\ wk = [w \in Workers |-> IdleWorker]
    /\ lru = [w \in Workers |-> [s \in {} |-> {}]]
    /\ csv_requests = [s \in Slugs |-> 0]
    /\ csv_returned = [s \in Slugs |-> FALSE]
    /\ year_returns = [s \in Slugs \cup {""} |-> {}]
    /\ meta_requests = {}
    /\ gs = [GrapherOff EXCEPT !.pc = IF program = "grapher" THEN "fetch" ELSE "off"]

InitWith(tbl, exp, files) ==
    /\ InitProgram(tbl, exp, files, "mcp")
    /\ main = MainStart

(***************************************************************************)
(* fetch_map_charts_from_sql                                               *)
(***************************************************************************)
\* one pass of the while loop: the request at the current offset, which
\* fails or answers with the rows of the table from that offset on
FetchPage ==
    /\ fm.pc = "loop"
    /\ \E ok \in BOOLEAN :
         LET rows == IF ok
                     THEN SubSeq(table, fm.offset + 1,
                                 Min(fm.offset + page_size, Len(table)))
                     ELSE << >>
             stop == ~ok \/ Len(rows) < page_size
         IN  fm' = [fm EXCEPT !.requests = Append(@, fm.offset),
                              !.pages = IF ok THEN Append(@, rows) ELSE @,
                              !.failed = ~ok,
                              !.all_charts = @ \o rows,
                              !.offset = IF stop THEN @ ELSE @ + page_size,
                              !.pc = IF stop THEN "post" ELSE "loop"]
    /\ UNCHANGED << main, gs, table, export, csv_file, scan, task, wk, lru,
                    csv_requests, csv_returned, year_returns, meta_requests >>

\* lines 143-151: every config is parsed for all_charts.json, outside any
\* try; then the list is returned
PostProcess ==
    /\ fm.pc = "post"
    /\ LET bad == \E i \in 1..Len(fm.all_charts) :
                     parse_chart_config(fm.all_charts[i].config).raised
       IN  fm' = [fm EXCEPT !.pc = IF bad THEN "raised" ELSE "returned",
                            !.all_charts_json =
                                IF bad THEN @
                                ELSE { fm.all_charts[i].slug : i \in 1..Len(fm.all_charts) }]
    /\ UNCHANGED << main, gs, table, export, csv_file, scan, task, wk, lru,
                    csv_requests, csv_returned, year_returns, meta_requests >>

(***************************************************************************)
(* scan_all_charts_with_pool                                               *)
(***************************************************************************)
\* lines 337-348: the inventory is back (or its exception passes through);
\* no charts, no pool
ScanStart ==
    /\ scan.pc = "fetch"
    /\ fm.pc \in {"returned", "raised"}
    /\ scan' = [scan EXCEPT !.charts = IF fm.pc = "returned" THEN fm.all_charts ELSE << >>,
                            !.pc = IF fm.pc = "raised" THEN "raised"
                                   ELSE IF fm.all_charts = << >> THEN "returned"
                                   ELSE "pool"]
    /\ task' = IF fm.pc = "returned"
               THEN [i \in 1..Len(fm.all_charts) |-> Queued]
               ELSE << >>
    /\ UNCHANGED << main, gs, table, export, csv_file, fm, wk, lru,
                    csv_requests, csv_returned, year_returns, meta_requests >>

\* imap hands the next chart, in the order of the list, to an idle worker
Dispatch(w) ==
    /\ scan.pc = "pool"
    /\ wk[w].pc = "idle"
    /\ scan.next <= Len(scan.charts)
    /\ scan' = [scan EXCEPT !.next = @ + 1]
    /\ wk' = [wk EXCEPT ![w] = [IdleWorker EXCEPT !.pc = "start", !.idx = scan.next]]
    /\ task' = [task EXCEPT ![scan.next].state = "running"]
    /\ UNCHANGED << main, gs, table, export, csv_file, fm, lru,
                    csv_requests, csv_returned, year_returns, meta_requests >>

\* results taken as the calls end, whatever their place in the list
imap_next_Unordered ==
    LET n == Len(scan.results) + 1
    IN  IF \E j \in DOMAIN task : task[j].rank = n
        THEN CHOOSE j \in DOMAIN task : task[j].rank = n
        ELSE 0

\* the chart whose result imap yields next: the next of the list
imap_next == Len(scan.results) + 1

\* list(pool.imap(...)) takes the results in the order of the list; the
\* exception of a call is raised again here, and leaving the with block
\* terminates the pool
Collect ==
    /\ scan.pc = "pool"
    /\ LET k == imap_next
       IN  /\ k \in DOMAIN task
           /\ task[k].state \in {"done", "raised"}
           /\ scan' = IF task[k].state = "raised"
                      THEN [scan EXCEPT !.pc = "raised"]
                      ELSE [scan EXCEPT !.results = Append(@, task[k].result),
                                        !.pc = IF Len(scan.results) + 1 = Len(scan.charts)
                                               THEN "returned" ELSE "pool"]
    /\ UNCHANGED << main, gs, table, export, csv_file, fm, task, wk, lru,
                    csv_requests, csv_returned, year_returns, meta_requests >>


(***************************************************************************)
(* generate_chart_result, run by a worker process                          *)
(***************************************************************************)
\* the place of a call that ends now among the calls that have ended
Rank == Cardinality({ j \in DOMAIN task : task[j].state \in {"done", "raised"} }) + 1

\* what a call leaves: its record, or that it raised
Finished(chart, config, primary, fallback, years, late) ==
    LET r == chart_result(chart, parse_config_for_map_info(config), years)
    IN  [state |-> IF r.raised THEN "raised" ELSE "done",
         error |-> IF r.raised THEN "max" ELSE "",
         result |-> IF r.raised THEN NoResult ELSE r.val,
         primary |-> primary, fallback |-> fallback, years |-> years, late |-> late,
         rank |-> Rank]

\* the fallback called whatever the primary extraction returned
fallback_needed_Always(primary) == TRUE

\* whether lines 373-374 call try_with_dimensions
fallback_needed(primary) == primary = {}

\* lines 373-397 once fetch_chart_data_years has returned: the record at
\* once, unless the fallback has a request to make
AfterYears(w, config, primary) ==
    LET i == wk[w].idx
        chart == scan.charts[i]
        variableId == variableId_of(Get(config, "dimensions"))
    IN  IF ~fallback_needed(primary)
        THEN /\ task' = [task EXCEPT ![i] = Finished(chart, config, primary, FALSE, primary, wk[w].late)]
             /\ wk' = [wk EXCEPT ![w] = IdleWorker]
        ELSE IF Truthy(variableId)
        THEN /\ task' = [task EXCEPT ![i] = [@ EXCEPT !.fallback = TRUE,
                                                      !.primary = primary,
                                                      !.late = wk[w].late]]
             /\ wk' = [wk EXCEPT ![w] = [@ EXCEPT !.pc = "meta", !.config = config]]
        ELSE /\ task' = [task EXCEPT ![i] = Finished(chart, config, primary, TRUE, {}, wk[w].late)]
             /\ wk' = [wk EXCEPT ![w] = IdleWorker]

\* the lru_cache of the worker's process takes the result of a call
Cached(w, slug, years) ==
    [s \in DOMAIN lru[w] \cup {slug} |-> IF s = slug THEN years ELSE lru[w][s]]

\* lines 355-371: the config is parsed (its exception ends the call), then
\* fetch_chart_data_years is entered: a cached result, the empty set for no
\* slug, or on to fetch_csv_data
Start(w) ==
    /\ scan.pc = "pool"
    /\ wk[w].pc = "start"
    /\ LET i == wk[w].idx
           chart == scan.charts[i]
           slug == chart.slug
           parsed == parse_chart_config(chart.config)
       IN  IF parsed.raised
           THEN /\ task' = [task EXCEPT ![i] = [@ EXCEPT !.state = "raised",
                                                         !.error = "parse_chart_config",
                                                         !.rank = Rank]]
                /\ wk' = [wk EXCEPT ![w] = IdleWorker]
                /\ UNCHANGED << lru, year_returns >>
           ELSE IF slug \in DOMAIN lru[w]
           THEN /\ year_returns' = [year_returns EXCEPT ![slug] = @ \cup {lru[w][slug]}]
                /\ AfterYears(w, parsed.val, lru[w][slug])
                /\ UNCHANGED lru
           ELSE IF slug = ""
           THEN /\ lru' = [lru EXCEPT ![w] = Cached(w, slug, {})]
                /\ year_returns' = [year_returns EXCEPT ![slug] = @ \cup {{}}]
                /\ AfterYears(w, parsed.val, {})
           ELSE /\ wk' = [wk EXCEPT ![w] = [@ EXCEPT !.pc = "exists",
                                                     !.config = parsed.val,
                                                     !.late = csv_returned[slug]]]
                /\ UNCHANGED << task, lru, year_returns >>
    /\ UNCHANGED << main, gs, table, export, csv_file, fm, scan,
                    csv_requests, csv_returned, meta_requests >>

\* a cache that is never found
cache_hit_Never(slug) == FALSE

\* csv_file_path.exists()
cache_hit(slug) == csv_file[slug].exists

\* fetch_csv_data, line 278
Exists(w) ==
    /\ scan.pc = "pool"
    /\ wk[w].pc = "exists"
    /\ LET slug == scan.charts[wk[w].idx].slug
       IN  wk' = [wk EXCEPT ![w].pc = IF cache_hit(slug) THEN "read" ELSE "net"]
    /\ UNCHANGED << main, gs, table, export, csv_file, fm, scan, task, lru,
                    csv_requests, csv_returned, year_returns, meta_requests >>

\* fetch_csv_data returns with text, and fetch_chart_data_years with its years
ReturnText(w, slug, text) ==
    LET years == YearsOfText(text)
    IN  /\ lru' = [lru EXCEPT ![w] = Cached(w, slug, years)]
        /\ csv_returned' = [csv_returned EXCEPT ![slug] = TRUE]
        /\ year_returns' = [year_returns EXCEPT ![slug] = @ \cup {years}]
        /\ AfterYears(w, wk[w].config, years)

\* lines 279-280: the cached file is read
Read(w) ==
    /\ scan.pc = "pool"
    /\ wk[w].pc = "read"
    /\ LET slug == scan.charts[wk[w].idx].slug
       IN  ReturnText(w, slug, csv_file[slug].content)
    /\ UNCHANGED << main, gs, table, export, csv_file, fm, scan, csv_requests, meta_requests >>

\* lines 283-289: the GET of the export; a failure leaves the empty text
Net(w) ==
    /\ scan.pc = "pool"
    /\ wk[w].pc = "net"
    /\ LET slug == scan.charts[wk[w].idx].slug
       IN  /\ csv_requests' = [csv_requests EXCEPT ![slug] = @ + 1]
           /\ \E ok \in BOOLEAN :
                wk' = [wk EXCEPT ![w] = [@ EXCEPT !.pc = "open",
                                                  !.failed = ~ok,
                                                  !.text = IF ok THEN export[slug]
                                                           ELSE EmptyText]]
    /\ UNCHANGED << main, gs, table, export, csv_file, fm, scan, task, lru,
                    csv_returned, year_returns, meta_requests >>

\* line 291: open(..., "w") creates the file, or empties it
Open(w) ==
    /\ scan.pc = "pool"
    /\ wk[w].pc = "open"
    /\ LET slug == scan.charts[wk[w].idx].slug
       IN  csv_file' = [csv_file EXCEPT ![slug] = [exists |-> TRUE, content |-> EmptyText]]
    /\ wk' = [wk EXCEPT ![w].pc = "write"]
    /\ UNCHANGED << main, gs, table, export, fm, scan, task, lru,
                    csv_requests, csv_returned, year_returns, meta_requests >>

\* what line 292 writes
written_text(w) == wk[w].text

\* lines 292-294: the text is written and returned
Write(w) ==
    /\ scan.pc = "pool"
    /\ wk[w].pc = "write"
    /\ LET slug == scan.charts[wk[w].idx].slug
       IN  /\ csv_file' = [csv_file EXCEPT ![slug].content = written_text(w)]
           /\ ReturnText(w, slug, wk[w].text)
    /\ UNCHANGED << main, gs, table, export, fm, scan, csv_requests, meta_requests >>

RequestFailed == [t |-> "fail"]

\* try_with_dimensions, lines 54-66: the GET of the metadata; a failure, or
\* a body that is no JSON, returns the empty set
Meta(w) ==
    /\ scan.pc = "pool"
    /\ wk[w].pc = "meta"
    /\ LET i == wk[w].idx
           chart == scan.charts[i]
       IN  /\ meta_requests' = meta_requests \cup {i}
           /\ \E resp \in MetaBodies \cup {RequestFailed} :
                LET r == IF resp = RequestFailed
                         THEN [raised |-> FALSE, years |-> {}]
                         ELSE years_of_metadata(resp)
                IN  task' = [task EXCEPT ![i] =
                                IF r.raised
                                THEN [@ EXCEPT !.state = "raised",
                                               !.error = "try_with_dimensions",
                                               !.rank = Rank]
                                ELSE Finished(chart, wk[w].config, task[i].primary,
                                              TRUE, r.years, wk[w].late)]
           /\ wk' = [wk EXCEPT ![w] = IdleWorker]
    /\ UNCHANGED << main, gs, table, export, csv_file, fm, scan, lru,
                    csv_requests, csv_returned, year_returns >>

(***************************************************************************)
(* main and save_results                                                   *)
(***************************************************************************)
fieldnames == << "chart_id", "slug", "title", "url", "has_map_tab", "max_time",
                 "min_time", "default_tab", "is_published", "entity_type",
                 "single_year_data", "len_years", "has_timeline" >>

\* what csv.DictWriter writes for a value: nothing for None, str() otherwise
CsvCell(v) ==
    CASE v.t = "none" -> ""
      [] v.t = "bool" -> IF v.b THEN "True" ELSE "False"
      [] v.t = "int"  -> ToString(v.n)
      [] v.t = "str"  -> v.s

\* the line of a record in a file of save_results (a chart has no title in
\* the model, so none is written)
CsvRow(r) ==
    [ chart_id         |-> ToString(r.chart_id),
      slug             |-> r.slug,
      url              |-> r.url.base \o r.url.query,
      has_map_tab      |-> r.has_map_tab,
      max_time         |-> CsvCell(r.max_time),
      min_time         |-> CsvCell(r.min_time),
      default_tab      |-> CsvCell(r.default_tab),
      is_published     |-> CsvCell(r.is_published),
      entity_type      |-> CsvCell(r.entity_type),
      single_year_data |-> r.single_year_data,
      len_years        |-> ToString(r.len_years),
      has_timeline     |-> r.has_timeline ]

RECURSIVE writerows(_)
writerows(records) ==
    IF records = << >> THEN << >>
    ELSE << CsvRow(Head(records)) >> \o writerows(Tail(records))

\* open(..., "w"), writeheader and writerows
Written(records) ==
    [exists |-> TRUE, opened |-> TRUE, header |-> fieldnames, rows |-> writerows(records)]

\* the test of lines 421 and 435, with the string alone
is_published_true_StringOnly(r) == r.is_published = StrV("True")

\* r["is_published"] == "True" or r["is_published"] is True
is_published_true(r) ==
    r.is_published = StrV("True") \/ r.is_published = BoolV(TRUE)

\* lines 420 and 435
published_map_charts(results) ==
    LET IsMap(r) == r.has_map_tab = "Yes"
        IsPublished(r) == is_published_true(r)
        map_charts == SelectSeq(results, IsMap)
    IN  SelectSeq(map_charts, IsPublished)

\* lines 460-468: the exception of the scan ends main; otherwise the list is
\* dumped to the JSON file, and handed to save_results unless it is empty
MainDump ==
    /\ main.pc = "scan"
    /\ scan.pc \in {"returned", "raised"}
    /\ main' = IF scan.pc = "raised"
               THEN [main EXCEPT !.pc = "raised"]
               ELSE [main EXCEPT !.json = [exists |-> TRUE, opened |-> TRUE,
                                           header |-> << >>, rows |-> scan.results],
                                 !.results = scan.results,
                                 !.pc = IF scan.results # << >> THEN "save" ELSE "done"]
    /\ UNCHANGED << gs, table, export, csv_file, fm, scan, task, wk, lru,
                    csv_requests, csv_returned, year_returns, meta_requests >>

\* save_results: the complete file, then the file of the published maps if
\* there is any
SaveResults ==
    /\ main.pc = "save"
    /\ LET published == published_map_charts(main.results)
       IN  main' = [main EXCEPT !.complete = Written(main.results),
                                !.published = IF published # << >>
                                              THEN Written(published) ELSE @,
                                !.pc = "done"]
    /\ UNCHANGED << gs, table, export, csv_file, fm, scan, task, wk, lru,
                    csv_requests, csv_returned, year_returns, meta_requests >>

Next ==
    \/ MainDump
    \/ SaveResults
    \/ FetchPage
    \/ PostProcess
    \/ ScanStart
    \/ Collect
    \/ \E w \in Workers :
         \/ Dispatch(w)
         \/ Start(w)
         \/ Exists(w)
         \/ Read(w)
         \/ Net(w)
         \/ Open(w)
         \/ Write(w)
         \/ Meta(w)

(***************************************************************************)
(* owid_grapher_map_scanner.py                                             *)
(***************************************************************************)
KNOWN_MAP_CHARTS ==
    << << "390", "population-with-un-projections", "Population" >>,
       << "8903", "most-common-religion",
          "What is the most common religious affiliation in each country?" >>,
       << "8910", "trust-churches-religious-organizations",
          "Share of people that trust churches and religious organizations" >>,
       << "8911", "trust-another-religion",
          "Share of people who say they trust people of another religion" >>,
       << "8912", "neighbors-different-religion",
          "Share who said they would not want neighbors of a different religion" >>,
       << "703", "share-of-children-younger-than-5-who-suffer-from-stunting",
          "Malnutrition: Share of children who are stunted" >> >>

\* main calls scan_grapher_pages(max_charts=50)
max_charts == 50

\* the "csv" of an inventory response, as its lines split at the commas; a
\* response without "csv" gives the one empty line
CsvHeader == << "id", "slug", "title", "type", "isPublished" >>

CsvLine(id, slug) == << id, slug, "", "LineChart", "True" >>

CsvTexts ==
    { << << "" >> >>,
      << CsvHeader >>,
      << CsvHeader, CsvLine("1", "a") >>,
      << CsvHeader, CsvLine("1", "a"), CsvLine("2", "b") >>,
      << CsvHeader, << "1", "a", "", "LineChart" >>, CsvLine("2", "b") >> }

\* lines 61-81: the charts of a response
RECURSIVE charts_of_lines(_)
charts_of_lines(lines) ==
    IF lines = << >> THEN << >>
    ELSE LET values == Head(lines)
         IN  (IF Len(values) >= 5
              THEN << [t |-> "dict", id |-> values[1], slug |-> values[2],
                       title |-> values[3], type |-> values[4],
                       isPublished |-> values[5]] >>
              ELSE << >>) \o charts_of_lines(Tail(lines))

charts_of_csv(lines) ==
    IF Len(lines) < 2 THEN << >> ELSE charts_of_lines(Tail(lines))

RECURSIVE TuplesOf(_)
TuplesOf(known) ==
    IF known = << >> THEN << >>
    ELSE << [t |-> "tuple", v |-> Head(known)] >> \o TuplesOf(Tail(known))

\* fetch_all_chart_ids, and lines 190-193 of scan_grapher_pages: the charts
\* of the response, or KNOWN_MAP_CHARTS when the request fails; at most
\* max_charts of them are kept
GrapherFetch ==
    /\ gs.pc = "fetch"
    /\ \E ok \in BOOLEAN, lines \in CsvTexts :
         LET charts == IF ok THEN charts_of_csv(lines) ELSE TuplesOf(KNOWN_MAP_CHARTS)
             kept == SubSeq(charts, 1, Min(max_charts, Len(charts)))
         IN  gs' = [gs EXCEPT !.failed = ~ok,
                              !.charts = kept,
                              !.pc = IF kept = << >> THEN "collect" ELSE "submit"]
    /\ UNCHANGED << main, table, export, csv_file, fm, scan, task, wk, lru,
                    csv_requests, csv_returned, year_returns, meta_requests >>

\* lines 203-210, one pass of the loop: chart["id"] of a tuple is a
\* TypeError, which nothing in scan_grapher_pages or main catches
GrapherSubmit ==
    /\ gs.pc = "submit"
    /\ LET chart == gs.charts[gs.next]
       IN  gs' = IF chart.t = "tuple"
                 THEN [gs EXCEPT !.pc = "raised"]
                 ELSE [gs EXCEPT !.futures = Append(@, [done |-> FALSE, has_map |-> FALSE,
                                                        taken |-> FALSE]),
                                 !.next = @ + 1,
                                 !.pc = IF gs.next = Len(gs.charts)
                                        THEN "collect" ELSE "submit"]
    /\ UNCHANGED << main, table, export, csv_file, fm, scan, task, wk, lru,
                    csv_requests, csv_returned, year_returns, meta_requests >>

\* a thread of the executor runs check_map_tab_via_html for future i: a
\* failed request is no map
check_map_tab_via_html(i) ==
    /\ gs.pc \in {"submit", "collect"}
    /\ i \in DOMAIN gs.futures
    /\ ~gs.futures[i].done
    /\ \E ok \in BOOLEAN, indicator \in BOOLEAN :
         gs' = [gs EXCEPT !.futures[i] = [@ EXCEPT !.done = TRUE,
                                                   !.has_map = ok /\ indicator],
                          !.completed = Append(@, i)]
    /\ UNCHANGED << main, table, export, csv_file, fm, scan, task, wk, lru,
                    csv_requests, csv_returned, year_returns, meta_requests >>

\* lines 212-229: as_completed yields a finished future, and its record is
\* appended
GrapherCollect(i) ==
    /\ gs.pc = "collect"
    /\ i \in DOMAIN gs.futures
    /\ gs.futures[i].done /\ ~gs.futures[i].taken
    /\ LET chart == gs.charts[i]
           has_map == gs.futures[i].has_map
           result == [ chart_id         |-> chart.id,
                       slug             |-> chart.slug,
                       title            |-> chart.title,
                       url              |-> chart.slug \o (IF has_map THEN "?tab=map" ELSE ""),
                       has_map_tab      |-> IF has_map THEN "Yes" ELSE "No",
                       is_published     |-> chart.isPublished,
                       single_year_data |-> "To be checked" ]
       IN  gs' = [gs EXCEPT !.futures[i].taken = TRUE,
                            !.results = Append(@, result)]
    /\ UNCHANGED << main, table, export, csv_file, fm, scan, task, wk, lru,
                    csv_requests, csv_returned, year_returns, meta_requests >>

\* line 234 and save_to_csv: every future has been taken; the results are
\* written
save_to_csv ==
    /\ gs.pc = "collect"
    /\ Len(gs.results) = Len(gs.charts)
    /\ gs' = [gs EXCEPT !.pc = "done",
                        !.file = [exists |-> TRUE, opened |-> TRUE,
                                  header |-> << "chart_id", "slug", "title", "url",
                                                "has_map_tab", "is_published",
                                                "single_year_data" >>,
                                  rows |-> gs.results]]
    /\ UNCHANGED << main, table, export, csv_file, fm, scan, task, wk, lru,
                    csv_requests, csv_returned, year_returns, meta_requests >>

\* the steps of either program
NextInventory ==
    \/ Next
    \/ GrapherFetch
    \/ GrapherSubmit
    \/ save_to_csv
    \/ \E i \in DOMAIN gs.futures : check_map_tab_via_html(i)
    \/ \E i \in DOMAIN gs.futures : GrapherCollect(i)

(***************************************************************************)
(* Initial states.                                                         *)
(***************************************************************************)
Row(id, slug, config) ==
    [id |-> id, slug |-> slug, isPublished |-> StrV("True"), config |-> config]

CacheFiles == { NoFile,
                [exists |-> TRUE, content |-> EmptyText],
                [exists |-> TRUE, content |-> ExportOneYear] }

\* an inventory of one chart, of any configuration text
Init ==
    \E config \in ConfigTexts, slug \in {"a", ""}, exp \in Exports,
       file \in {NoFile, [exists |-> TRUE, content |-> ExportOneYear]} :
        /\ slug = "" => exp = ExportTwoYears /\ file = NoFile
        /\ InitWith(<< Row(1, slug, config) >>,
                    [s \in Slugs |-> IF s = "a" THEN exp ELSE ExportTwoYears],
                    [s \in Slugs |-> IF s = "a" THEN file ELSE NoFile])

Spec == Init /\ [][Next]_vars

\* the configurations of the charts of a pool run
PoolConfigs == { Dump(EmptyDict),
                 Dump(D1("dimensions", ListV(<< DictV(DimY) >>))) }

\* an inventory of up to MaxPoolCharts charts, whose slugs may coincide; the
\* first chart may have a y indicator
InitPool ==
    \E n \in 1..MaxPoolCharts :
      \E slugs \in [1..n -> Slugs], config \in PoolConfigs,
         exp \in {ExportTwoYears, ExportNoYears}, file \in CacheFiles :
        InitWith([i \in 1..n |-> Row(i, slugs[i], IF i = 1 THEN config ELSE Dump(EmptyDict))],
                 [s \in Slugs |-> IF s = "a" THEN exp ELSE ExportOneYear],
                 [s \in Slugs |-> IF s = "a" THEN file ELSE NoFile])

SpecPool == InitPool /\ [][Next]_vars

\* a table of up to MaxRows rows, at most one of them with a text that is no
\* JSON; the first row has an export and a y indicator
InitPaging ==
    \E n \in 0..MaxRows, bad \in 0..MaxRows, file \in CacheFiles :
        /\ bad <= n
        /\ InitWith([i \in 1..n |->
                        Row(i, IF i = 1 THEN "a" ELSE "",
                            IF i = bad THEN << "{" >>
                            ELSE IF i = 1
                                 THEN Dump(D1("dimensions", ListV(<< DictV(DimY) >>)))
                                 ELSE Dump(EmptyDict))],
                     [s \in Slugs |-> ExportNoYears],
                     [s \in Slugs |-> IF s = "a" THEN file ELSE NoFile])

SpecPaging == InitPaging /\ [][Next]_vars

\* either program, on an inventory of at most one chart
InitInventory ==
    \/ \E n \in 0..1, config \in PoolConfigs,
          exp \in {ExportTwoYears, ExportNoYears}, file \in CacheFiles :
         InitWith([i \in 1..n |-> Row(i, "a", config)],
                  [s \in Slugs |-> exp],
                  [s \in Slugs |-> IF s = "a" THEN file ELSE NoFile])
    \/ /\ InitProgram(<< >>, [s \in Slugs |-> ExportNoYears],
                      [s \in Slugs |-> NoFile], "grapher")
       /\ main = MainStart

SpecInventory == InitInventory /\ [][NextInventory]_vars


(***************************************************************************)
(* Properties of the classification, checked under Spec.                   *)
(***************************************************************************)
\* the charts whose generate_chart_result call has returned its record
DoneTasks == { i \in DOMAIN task : task[i].state = "done" }

\* the configuration generate_chart_result parsed for chart i
ConfigOf(i) == parse_chart_config(scan.charts[i].config).val

MapInfoOf(i) == parse_config_for_map_info(ConfigOf(i))

\* the explicit bound of a configuration: the timeline field when present,
\* else the alternately named field, else None
ExplicitBound(config, first, second) ==
    IF first \in DOMAIN config THEN config[first] ELSE Get(config, second)

\* C1: a chart whose parsed configuration has has_timeline = false has
\* single_year_data = "Yes" in its record, whatever the number of its years.
C1_HiddenTimelineIsSingleYear ==
    \A i \in DoneTasks :
        ~MapInfoOf(i).has_timeline => task[i].result.single_year_data = "Yes"

\* C2: a chart whose configuration gives an explicit minimum and an explicit
\* maximum time that are equal has single_year_data = "Yes" in its record,
\* also when its export yields no years.
C2_EqualBoundsIsSingleYear ==
    \A i \in DoneTasks :
        LET lo == ExplicitBound(ConfigOf(i), "timelineMinTime", "MinTime")
            hi == ExplicitBound(ConfigOf(i), "timelineMaxTime", "MaxTime")
        IN  lo # NoneV /\ lo = hi => task[i].result.single_year_data = "Yes"

\* a text that is JSON neither after the replacement nor unmodified
Unparseable(text) == JsonLoads(ReplaceDoubled(text)).raised /\ JsonLoads(text).raised

\* C3: parsing never raises: a configuration text that is JSON neither after
\* the replacement of doubled quotes nor unmodified parses to the all-default
\* configuration, and neither the inventory nor the run raises because of it.
C3_ParseNeverRaises ==
    \A i \in 1..Len(fm.all_charts) :
        LET text == fm.all_charts[i].config
        IN  Unparseable(text) =>
              /\ ~parse_chart_config(text).raised
              /\ parse_config_for_map_info(parse_chart_config(text).val)
                   = parse_config_for_map_info(EmptyDict)
              /\ fm.pc # "raised"
              /\ scan.pc # "raised"

\* C4: try_with_dimensions is called for a chart, and the metadata endpoint
\* requested, only if fetch_chart_data_years returned the empty set for it;
\* when the primary set is not empty the years used are the primary set.
C4_FallbackOnlyOnPrimaryEmpty ==
    \A i \in DOMAIN task :
        /\ task[i].fallback => task[i].primary = {}
        /\ i \in meta_requests => task[i].fallback /\ task[i].primary = {}
        /\ task[i].state = "done" /\ task[i].primary # {} =>
             /\ task[i].years = task[i].primary
             /\ task[i].result.len_years = Cardinality(task[i].primary)

\* a chart with a y indicator whose primary years were not empty: classified
\* from them, the metadata never requested
C4_Witness ==
    \E i \in DoneTasks :
        /\ task[i].primary # {}
        /\ Truthy(variableId_of(Get(ConfigOf(i), "dimensions")))
        /\ ~task[i].fallback
        /\ i \notin meta_requests
        /\ task[i].result.len_years = 2

\* C8: a configuration whose hasMapTab is set, or whose tab is "map", parses
\* to has_map_tab = true, and the record says "Yes".
C8_MapTabOrRule ==
    /\ \A w \in Workers :
          wk[w].pc \in {"exists", "read", "net", "open", "write", "meta"} =>
            LET config == wk[w].config
            IN  Truthy(Get(config, "hasMapTab")) \/ Get(config, "tab") = StrV("map")
                  => parse_config_for_map_info(config).has_map_tab
    /\ \A i \in DoneTasks :
          Truthy(Get(ConfigOf(i), "hasMapTab")) \/ Get(ConfigOf(i), "tab") = StrV("map")
            => task[i].result.has_map_tab = "Yes" /\ task[i].result.url.query = "?tab=map"

\* exactly one of the two signals: the tab is "map", hasMapTab is false
C8_Witness ==
    \E i \in DoneTasks :
        /\ Get(ConfigOf(i), "tab") = StrV("map")
        /\ Get(ConfigOf(i), "hasMapTab") = BoolV(FALSE)
        /\ task[i].result.has_map_tab = "Yes"

\* C9: max_time (min_time) of a record is the configuration's explicit
\* maximum (minimum) bound whenever it is present, whatever its value; else
\* the maximum (minimum) of the years when there are any; else absent.
C9_TimeBounds ==
    \A i \in DoneTasks :
        LET hi == ExplicitBound(ConfigOf(i), "timelineMaxTime", "MaxTime")
            lo == ExplicitBound(ConfigOf(i), "timelineMinTime", "MinTime")
            years == task[i].years
        IN  /\ task[i].result.max_time =
                 IF hi # NoneV THEN hi
                 ELSE IF years # {} THEN PyMax(years).val ELSE NoneV
            /\ task[i].result.min_time =
                 IF lo # NoneV THEN lo
                 ELSE IF years # {} THEN PyMin(years).val ELSE NoneV

\* C10: try_with_dimensions never raises; it returns the empty collection
\* when the dimension list has no y entry.
C10_FallbackNeverRaises ==
    \A i \in DOMAIN task :
        /\ task[i].error # "try_with_dimensions"
        /\ task[i].state = "done" /\ task[i].fallback
             /\ ~Truthy(variableId_of(Get(ConfigOf(i), "dimensions")))
             => task[i].years = {} /\ i \notin meta_requests


(***************************************************************************)
(* Properties of the cache and of the pool, checked under SpecPool.        *)
(***************************************************************************)
\* C5: within one run, all calls of fetch_chart_data_years with one slug
\* return the same set, and the export of a slug is requested at most once.
C5_MemoizedPerSlug ==
    \A s \in Slugs :
        /\ Cardinality(year_returns[s]) <= 1
        /\ csv_requests[s] <= 1

RECURSIVE Flatten(_)
Flatten(pages) ==
    IF pages = << >> THEN << >> ELSE Head(pages) \o Flatten(Tail(pages))

\* C7: the pages are requested at offsets 0, page_size, 2*page_size, ... in
\* that order; the loop stops at the first page that is short or whose
\* request failed; and the function returns every row of every page it
\* received.
C7_Paging ==
    /\ \A k \in 1..Len(fm.requests) : fm.requests[k] = (k - 1) * page_size
    /\ \A k \in 1..Len(fm.requests) - 1 :
          k <= Len(fm.pages) /\ Len(fm.pages[k]) = page_size
    /\ fm.pc # "loop" =>
          \/ fm.failed /\ Len(fm.pages) = Len(fm.requests) - 1
          \/ /\ Len(fm.pages) = Len(fm.requests)
             /\ Len(fm.pages[Len(fm.pages)]) < page_size
    /\ fm.pc \notin {"loop", "post"} =>
          /\ fm.pc = "returned"
          /\ fm.all_charts = Flatten(fm.pages)
    /\ scan.pc \in {"pool", "returned"} => scan.charts = Flatten(fm.pages)


(***************************************************************************)
(* save_results on its own: any list of records, and a file of published   *)
(* maps that an earlier run may have left.                                 *)
(***************************************************************************)
\* the values of is_published: isPublished as the server gave it
PublishedValues == { StrV("True"), BoolV(TRUE), BoolV(FALSE), StrV("False"), IntV(1) }

\* the records of generate_chart_result that differ in what save_results
\* looks at
SaveRecord(id, has_map, published) ==
    [NoResult EXCEPT !.chart_id = id, !.slug = "a", !.url.base = "a",
                     !.url.query = IF has_map THEN "?tab=map" ELSE "",
                     !.has_map_tab = IF has_map THEN "Yes" ELSE "No",
                     !.is_published = published]

StaleOutput == [exists |-> TRUE, opened |-> FALSE, header |-> fieldnames, rows |-> << >>]

InitSave ==
    \E n \in 1..MaxRecords :
      \E has_map \in [1..n -> BOOLEAN], published \in [1..n -> PublishedValues],
         left \in {NoOutput, StaleOutput} :
        /\ InitProgram(<< >>, [s \in Slugs |-> ExportNoYears],
                       [s \in Slugs |-> NoFile], "save_results")
        /\ main = [MainStart EXCEPT
                      !.pc = "save",
                      !.results = [i \in 1..n |-> SaveRecord(i, has_map[i], published[i])],
                      !.published = left]

SpecSave == InitSave /\ [][SaveResults]_vars

(***************************************************************************)
(* Properties of the report files, checked under SpecSave.                 *)
(***************************************************************************)
\* the rows of a file that stand for the records of the list that are
\* published maps, in the order of the file
RECURSIVE RowsOfPublishedMaps(_, _)
RowsOfPublishedMaps(rows, records) ==
    IF rows = << >> \/ records = << >> THEN << >>
    ELSE LET r == Head(records)
             keep == /\ r.is_published \in {StrV("True"), BoolV(TRUE)}
                     /\ r.has_map_tab = "Yes"
         IN  (IF keep THEN << Head(rows) >> ELSE << >>)
             \o RowsOfPublishedMaps(Tail(rows), Tail(records))

\* C12: once save_results has returned, the file of the published maps
\* holds exactly the rows of the complete file whose record has is_published
\* "True" or true and has_map_tab "Yes", in the order of the complete file;
\* when no record is such, save_results has not created (opened) that file.
C12_PublishedOnlyFile ==
    (main.pc = "done" /\ main.results # << >>) =>
        LET expected == RowsOfPublishedMaps(main.complete.rows, main.results)
        IN  /\ main.complete.opened
            /\ Len(main.complete.rows) = Len(main.results)
            /\ IF expected = << >>
               THEN ~main.published.opened
               ELSE /\ main.published.opened
                    /\ main.published.header = fieldnames
                    /\ main.published.rows = expected

\* three records, the first published as a string and the third as a
\* boolean, the second no map: the file holds the first and the third row
C12_Witness ==
    /\ main.pc = "done"
    /\ Len(main.results) = 3
    /\ main.results[1].is_published = StrV("True")
    /\ main.results[2].has_map_tab = "No"
    /\ main.results[3].is_published = BoolV(TRUE)
    /\ Len(main.published.rows) = 2
    /\ main.published.rows[1].chart_id = "1"
    /\ main.published.rows[2].chart_id = "3"

(***************************************************************************)
(* Properties of a failed inventory, checked under SpecInventory.          *)
(***************************************************************************)
\* the first inventory request of owid_map_scanner_mcp.py failed
McpInventoryFailed == fm.requests = << 0 >> /\ fm.failed

\* C11: when the first inventory request fails, the run stops without
\* classifying any chart and reports zero results, in both programs: no
\* generate_chart_result call and no request for a chart, no exception, no
\* future submitted, and files without a record.
C11_FailedInventoryReportsNothing ==
    /\ McpInventoryFailed =>
          /\ task = << >> /\ scan.results = << >>
          /\ meta_requests = {} /\ \A s \in Slugs : csv_requests[s] = 0
          /\ scan.pc # "raised" /\ main.pc # "raised"
          /\ main.pc = "done" => /\ main.json.rows = << >>
                                 /\ main.complete.rows = << >>
                                 /\ main.published.rows = << >>
    /\ gs.failed =>
          /\ gs.futures = << >> /\ gs.results = << >>
          /\ gs.pc # "raised"
          /\ gs.pc = "done" => gs.file.rows = << >>

\* the part of C11 about owid_map_scanner_mcp.py alone
McpFailedInventoryReportsNothing ==
    McpInventoryFailed =>
          /\ task = << >> /\ scan.results = << >>
          /\ scan.pc # "raised" /\ main.pc # "raised"
          /\ main.pc = "done" => main.json.rows = << >>

McpFailedInventoryReached == McpInventoryFailed /\ main.pc = "done" /\ table # << >>


(***************************************************************************)
(* Properties of the collected list, checked under SpecPool.               *)
(***************************************************************************)
\* C13: in whatever order the calls of the pool end, the list taken from
\* imap holds, at place i, the record the call for chart i of the inventory
\* left; and the list scan_all_charts_with_pool returns has one record for
\* every chart of the inventory.
C13_ResultsInInventoryOrder ==
    /\ Len(scan.results) <= Len(scan.charts)
    /\ \A i \in 1..Len(scan.results) :
          /\ task[i].state = "done"
          /\ scan.results[i] = task[i].result
          /\ scan.results[i].chart_id = scan.charts[i].id
          /\ scan.results[i] =
                chart_result(scan.charts[i], MapInfoOf(i), task[i].years).val
    /\ scan.pc = "returned" => Len(scan.results) = Len(scan.charts)

\* two charts, the call for the second ended before the call for the first,
\* and the list has been returned
C13_Witness ==
    /\ scan.pc = "returned"
    /\ Len(scan.charts) = 2
    /\ task[2].rank = 1 /\ task[1].rank = 2
    /\ scan.results[1] # scan.results[2]
    /\ scan.results[1].len_years # scan.results[2].len_years

=============================================================================
